---- MODULE Spec2Model ----
(***************************************************************************)
(* Model of the transcription manager of Handy                             *)
(* (src-tauri/src/managers/transcription.rs): the model lifecycle          *)
(* controller, the idle watcher, the background loader, the chunked        *)
(* inference pipeline, the capability switcher and the cancellation slot.  *)
(*                                                                         *)
(* Threads run the methods of TranscriptionManager step by step; a step    *)
(* is one critical section (one lock scope) or one blocking call of the    *)
(* source.  Each thread keeps a stack of program positions, so that        *)
(* load_model and unload_model are the same steps whoever calls them.      *)
(*                                                                         *)
(* Times are counted in samples of the 16 kHz input (16000 units = 1 s),   *)
(* so that chunk.len() / 16000.0 is exact; f32 rounding is not modelled.   *)
(***************************************************************************)
EXTENDS Integers, Sequences, FiniteSets, TLC

\* ------------------------------------------------------------------ bounds
NumCallers == 2      \* threads of the host that call into the manager
MaxCalls == 3        \* calls the host makes in one run
AfterSeconds == 10   \* the n of the After(n) unload mode

\* ------------------------------------------------------- program constants
TickSeconds == 10    \* the idle watcher's sleep
TurboScore == 100    \* the score of a model whose id contains "turbo"
SampleRate == 16000
ChunkSeconds == 5

\* ----------------------------------------------------------------- threads
Watcher == 0
Callers == 1..NumCallers
Loaders == {0 - k : k \in 1..MaxCalls}
Threads == Callers \cup Loaders \cup {Watcher}
Free == 0 - (MaxCalls + 1)   \* the holder of a lock nobody holds
LoaderId(k) == 0 - k

\* ------------------------------------------------------------ the catalog
None == "none"
Catalog ==
  [ parakeet       |-> [engine_type |-> "Parakeet", accuracy_score |-> 80, turbo |-> FALSE],
    small          |-> [engine_type |-> "Whisper",  accuracy_score |-> 60, turbo |-> FALSE],
    medium_turbo   |-> [engine_type |-> "Whisper",  accuracy_score |-> 40, turbo |-> TRUE ],
    large          |-> [engine_type |-> "Whisper",  accuracy_score |-> 90, turbo |-> FALSE] ]
CatalogIds == DOMAIN Catalog
EngineType(m) == Catalog[m].engine_type

VARIABLES
  engine,            \* the engine slot: None or the id of the model the engine was loaded from
  current_model_id,  \* None or a model id
  is_loading,        \* the flag behind the is_loading mutex
  engineLock,        \* the holder of the engine mutex, or Free
  loadingLock,       \* the holder of the is_loading mutex, or Free
  tokenSlot,         \* current_cancellation_token: 0 (None) or the number of a token
  tokenFlag,         \* the AtomicBool of every token created so far
  sinceActivity,     \* now - last_activity, in seconds, saturated above the idle limit
  shutdown_signal,
  watcher_handle,    \* "some": the JoinHandle is in its slot; "joining": taken, the slot's
                     \* lock held by the joiner; "none": taken, lock free
  settings,          \* the settings store, as get_settings reads it
  disk,              \* per catalog entry: "missing", "present" or "broken" (no usable path)
  spawned,           \* loader threads spawned so far
  calls,             \* calls the host has made so far
  ev,                \* model-state-changed events emitted so far, by type
  th                 \* the threads' stacks and locals

vars == <<engine, current_model_id, is_loading, engineLock, loadingLock,
          tokenSlot, tokenFlag, sinceActivity, shutdown_signal, watcher_handle,
          settings, disk, spawned, calls, ev, th>>

\* ---------------------------------------------------------- thread locals
\* stack: the positions still to run, innermost first; op: the host call being
\* served; res: the result of the call that returned last ("ok" or "err");
\* m: load_model's model_id; nload: backend load invocations made so far.
\* The other fields are the locals of transcribe; opts.given is FALSE for
\* options = None; progress and backend record what this transcription
\* emitted as transcription-progress and passed to the backend; unload_mode
\* is the mode maybe_unload_immediately read; entry notes the loads begun
\* before the call and whether one was running when it was made; resident
\* is what unload_model found in the slot (line 206); file_completed counts
\* the file-transcription-completed events of this transcribe_file call and
\* file_progress the transcription-progress events emitted before the last.
NoLocals ==
  [ stack |-> <<>>, op |-> "", res |-> "", m |-> None, nload |-> 0,
    audio |-> 0, opts |-> [given |-> FALSE, language |-> None, translate |-> FALSE],
    translate |-> FALSE, language |-> "", i |-> 0, tok |-> 0,
    previous_end_time |-> 0, acc |-> <<>>, was_cancelled |-> FALSE,
    progress |-> <<>>, backend |-> <<>>, out |-> <<>>, unload_mode |-> "",
    entry |-> [loads_started |-> 0, load_running |-> FALSE],
    resident |-> None, file_completed |-> 0, file_progress |-> 0 ]

pc(t) == IF th[t].stack = <<>> THEN "idle" ELSE Head(th[t].stack)

\* the position moves on within the same method
Goto(t, label) == [th EXCEPT ![t].stack = <<label>> \o Tail(@)]
\* the method at the top of the stack returns r to its caller
Return(t, r) == [th EXCEPT ![t].stack = Tail(@), ![t].res = r]
\* call a method of the manager; the caller resumes at `cont`
Call(t, entry, cont) == [th EXCEPT ![t].stack = <<entry, cont>> \o Tail(@)]

Emit(type) == [ev EXCEPT ![type] = @ + 1]

lifecycle == <<engine, current_model_id>>
locks == <<engineLock, loadingLock>>
cancel == <<tokenSlot, tokenFlag>>
env == <<settings, disk>>

InLoad(t) == pc(t) \in {"L1", "L_load", "L2", "L3"}
InUnload(t) == pc(t) \in {"U1", "U2"}

\* ------------------------------------------------------------- unload_model
\* lines 204-213: under the engine lock, unload the backend and empty the slot
UnloadEngine(t) ==
  /\ pc(t) = "U1"
  /\ engineLock = Free
  /\ engine' = None
  /\ th' = [Goto(t, "U2") EXCEPT ![t].resident = engine]
  /\ UNCHANGED <<current_model_id, is_loading, locks, cancel, sinceActivity,
                 shutdown_signal, watcher_handle, env, spawned, calls, ev>>

\* (mutant) an unload that found the slot empty reports an error
UnloadResult_ErrWhenEmpty(resident) == IF resident = None THEN "err" ELSE "ok"

\* line 235: unload_model returns Ok(()) whatever it found in the slot
UnloadResult(resident) == "ok"

\* lines 214-235: clear current_model_id, emit "unloaded", return Ok
UnloadClearId(t) ==
  /\ pc(t) = "U2"
  /\ current_model_id' = None
  /\ ev' = Emit("unloaded")
  /\ th' = [Return(t, UnloadResult(th[t].resident)) EXCEPT ![t].resident = None]
  /\ UNCHANGED <<engine, is_loading, locks, cancel, sinceActivity,
                 shutdown_signal, watcher_handle, env, spawned, calls>>

\* --------------------------------------------------------------- load_model
IsDownloaded(m) == disk[m] # "missing"
PathOk(m) == disk[m] = "present"

\* lines 255-285: emit loading_started, look the model up (a miss returns
\* through `?`), check is_downloaded (emits loading_failed), get the path (a
\* failure returns through `?`)
LoadModelLookup(t) ==
  /\ pc(t) = "L1"
  /\ LET m == th[t].m IN
     IF m \notin CatalogIds
       THEN /\ ev' = Emit("loading_started")
            /\ th' = Return(t, "err")
       ELSE IF ~IsDownloaded(m)
         THEN /\ ev' = [ev EXCEPT !["loading_started"] = @ + 1,
                                  !["loading_failed"] = @ + 1]
              /\ th' = Return(t, "err")
         ELSE IF ~PathOk(m)
           THEN /\ ev' = Emit("loading_started")
                /\ th' = Return(t, "err")
           ELSE /\ ev' = Emit("loading_started")
                /\ th' = Goto(t, "L_load")
  /\ UNCHANGED <<lifecycle, is_loading, locks, cancel, sinceActivity,
                 shutdown_signal, watcher_handle, env, spawned, calls>>

\* lines 288-326: create an engine of the model's type and load the weights
\* into it; on a backend error emit loading_failed and return the error.  The
\* engine slot is not touched: the engine resident in it stays loaded.
LoadModelBackend(t) ==
  /\ pc(t) = "L_load"
  /\ \E ok \in BOOLEAN :
       IF ok
         THEN /\ th' = [Goto(t, "L2") EXCEPT ![t].nload = @ + 1]
              /\ ev' = ev
         ELSE /\ th' = [Return(t, "err") EXCEPT ![t].nload = @ + 1]
              /\ ev' = Emit("loading_failed")
  /\ UNCHANGED <<lifecycle, is_loading, locks, cancel, sinceActivity,
                 shutdown_signal, watcher_handle, env, spawned, calls>>

\* lines 329-332: under the engine lock, put the new engine into the slot
\* (the engine that was there is dropped by the assignment)
LoadModelStore(t) ==
  /\ pc(t) = "L2"
  /\ engineLock = Free
  /\ engine' = th[t].m
  /\ th' = Goto(t, "L3")
  /\ UNCHANGED <<current_model_id, is_loading, locks, cancel, sinceActivity,
                 shutdown_signal, watcher_handle, env, spawned, calls, ev>>

\* lines 333-355: set current_model_id, emit loading_completed, return Ok
LoadModelSetId(t) ==
  /\ pc(t) = "L3"
  /\ current_model_id' = th[t].m
  /\ ev' = Emit("loading_completed")
  /\ th' = Return(t, "ok")
  /\ UNCHANGED <<engine, is_loading, locks, cancel, sinceActivity,
                 shutdown_signal, watcher_handle, env, spawned, calls>>

\* the engines that hold loaded weights: the one in the slot, and each engine
\* a load_model has loaded (line 291 / 309) and not yet moved into the slot
LoadedLocals == {t \in Threads : pc(t) = "L2"}
EngineInstances == (IF engine = None THEN 0 ELSE 1) + Cardinality(LoadedLocals)

\* ------------------------------------------------------ initiate_model_load
\* line 360: take the is_loading lock
InitiateLock(t) ==
  /\ pc(t) = "I1"
  /\ loadingLock = Free
  /\ loadingLock' = t
  /\ th' = Goto(t, "I2")
  /\ UNCHANGED <<lifecycle, is_loading, engineLock, cancel, sinceActivity,
                 shutdown_signal, watcher_handle, env, spawned, calls, ev>>

\* (mutant) the check without the is_loading flag
AlreadyLoaded_FlagIgnored == engine # None

\* line 361: *is_loading || self.is_model_loaded()
AlreadyLoadingOrLoaded == is_loading \/ engine # None

\* lines 361-376: return if loading or loaded; else set the flag and spawn
\* the loader thread.  is_model_loaded takes the engine lock.
InitiateCheck(t) ==
  /\ pc(t) = "I2"
  /\ is_loading \/ engineLock = Free
  /\ loadingLock' = Free
  /\ IF AlreadyLoadingOrLoaded
       THEN /\ th' = Return(t, "ok")
            /\ UNCHANGED <<is_loading, spawned>>
       ELSE /\ is_loading' = TRUE
            /\ spawned' = spawned + 1
            /\ th' = [Return(t, "ok") EXCEPT
                        ![LoaderId(spawned + 1)] =
                            [NoLocals EXCEPT !.stack = <<"LD0">>, !.op = "loader"]]
  /\ UNCHANGED <<lifecycle, engineLock, cancel, sinceActivity,
                 shutdown_signal, watcher_handle, env, calls, ev>>

\* lines 368-369: the loader reads the settings and calls load_model
LoaderStart(t) ==
  /\ pc(t) = "LD0"
  /\ th' = [Call(t, "L1", "LD1") EXCEPT ![t].m = settings.selected_model]
  /\ UNCHANGED <<lifecycle, is_loading, locks, cancel, sinceActivity,
                 shutdown_signal, watcher_handle, env, spawned, calls, ev>>

\* (mutant) the flag cleared only after a load that succeeded
LoaderFinish_OnlyOnOk(t) ==
  /\ pc(t) = "LD1"
  /\ loadingLock = Free
  /\ is_loading' = IF th[t].res = "ok" THEN FALSE ELSE is_loading
  /\ th' = Goto(t, "LD2")
  /\ UNCHANGED <<lifecycle, locks, cancel, sinceActivity,
                 shutdown_signal, watcher_handle, env, spawned, calls, ev>>

\* lines 372-374: whatever load_model returned, clear the flag and notify
LoaderFinish(t) ==
  /\ pc(t) = "LD1"
  /\ loadingLock = Free
  /\ is_loading' = FALSE
  /\ th' = Goto(t, "LD2")
  /\ UNCHANGED <<lifecycle, locks, cancel, sinceActivity,
                 shutdown_signal, watcher_handle, env, spawned, calls, ev>>

\* lines 375, 720-725: the closure ends and drops self_clone; Drop for
\* TranscriptionManager sets the shutdown signal
LoaderDropSignal(t) ==
  /\ pc(t) = "LD2"
  /\ shutdown_signal' = TRUE
  /\ th' = Goto(t, "LD3")
  /\ UNCHANGED <<lifecycle, is_loading, locks, cancel, sinceActivity,
                 watcher_handle, env, spawned, calls, ev>>

\* lines 728-734: Drop takes the watcher's JoinHandle out of its slot, if it
\* is still there, and joins the watcher thread; the guard of the
\* watcher_handle lock is a temporary of the `if let` and lives until the
\* join has returned
DropTakeHandle(t) ==
  /\ pc(t) = "LD3"
  /\ watcher_handle # "joining"
  /\ IF watcher_handle = "some"
       THEN /\ watcher_handle' = "joining"
            /\ th' = Goto(t, "LD4")
       ELSE /\ watcher_handle' = watcher_handle
            /\ th' = Return(t, th[t].res)
  /\ UNCHANGED <<lifecycle, is_loading, locks, cancel, sinceActivity,
                 shutdown_signal, env, spawned, calls, ev>>

\* line 729: join returns once the watcher thread has terminated.  The
\* watcher terminates through WatcherDrop, which needs the lock the joiner
\* holds, so this step is never enabled and Next leaves it out.
DropJoin(t) ==
  /\ pc(t) = "LD4"
  /\ th[Watcher].stack = <<>>
  /\ watcher_handle' = "none"
  /\ th' = Return(t, th[t].res)
  /\ UNCHANGED <<lifecycle, is_loading, locks, cancel, sinceActivity,
                 shutdown_signal, env, spawned, calls, ev>>

\* ------------------------------------------------------------- idle watcher
\* the smallest multiple of the watcher's period above the idle limit: the
\* clock difference is only ever compared with the limit
IdleCap == ((AfterSeconds \div TickSeconds) + 1) * TickSeconds

\* lines 111-115: the wall clock moves on
Tick ==
  /\ sinceActivity < IdleCap
  /\ sinceActivity' = sinceActivity + TickSeconds
  /\ UNCHANGED <<lifecycle, is_loading, locks, cancel, shutdown_signal,
                 watcher_handle, env, spawned, calls, ev, th>>

\* lines 94-95: the loop condition, then the 10 s sleep
WatcherLoop(t) ==
  /\ pc(t) = "W_loop"
  /\ th' = Goto(t, IF shutdown_signal THEN "W_drop" ELSE "W_wake")
  /\ UNCHANGED <<lifecycle, is_loading, locks, cancel, sinceActivity,
                 shutdown_signal, watcher_handle, env, spawned, calls, ev>>

\* (mutant) idle from the limit on, not only beyond it
IdleExceeded_AtLimit == sinceActivity >= AfterSeconds

\* line 117: now_ms.saturating_sub(last) > limit_seconds * 1000
IdleExceeded == sinceActivity > AfterSeconds

\* lines 98-117: after the sleep, check the shutdown signal again, read the
\* settings; to_seconds is None for Never; Immediately is skipped
WatcherWake(t) ==
  /\ pc(t) = "W_wake"
  /\ th' = Goto(t, IF shutdown_signal THEN "W_drop"
                   ELSE IF settings.model_unload_timeout = "After" /\ IdleExceeded
                          THEN "W_chk" ELSE "W_loop")
  /\ UNCHANGED <<lifecycle, is_loading, locks, cancel, sinceActivity,
                 shutdown_signal, watcher_handle, env, spawned, calls, ev>>

\* lines 119-123: if is_model_loaded() (under the engine lock), unload_model()
WatcherCheckLoaded(t) ==
  /\ pc(t) = "W_chk"
  /\ engineLock = Free
  /\ th' = IF engine # None THEN Call(t, "U1", "W_emit") ELSE Goto(t, "W_loop")
  /\ UNCHANGED <<lifecycle, is_loading, locks, cancel, sinceActivity,
                 shutdown_signal, watcher_handle, env, spawned, calls, ev>>

\* lines 123-138: unload_model returned Ok: emit "unloaded" (again)
WatcherEmit(t) ==
  /\ pc(t) = "W_emit"
  /\ ev' = IF th[t].res = "ok" THEN Emit("unloaded") ELSE ev
  /\ th' = Goto(t, "W_loop")
  /\ UNCHANGED <<lifecycle, is_loading, locks, cancel, sinceActivity,
                 shutdown_signal, watcher_handle, env, spawned, calls>>

\* lines 143-144, 720-735: the loop has ended; the closure drops
\* manager_cloned, whose Drop sets the signal and looks into the handle slot
\* (needing its lock); then the thread terminates
WatcherDrop(t) ==
  /\ pc(t) = "W_drop"
  /\ watcher_handle # "joining"
  /\ shutdown_signal' = TRUE
  /\ watcher_handle' = "none"
  /\ th' = Return(t, th[t].res)
  /\ UNCHANGED <<lifecycle, is_loading, locks, cancel, sinceActivity,
                 env, spawned, calls, ev>>

\* ------------------------------------------------- the backend, as a stub
\* What transcribe_samples may return for a chunk of n samples: an error, or
\* segments that are ordered and lie within the chunk, and a text.
Seg(s, e, x) == [start |-> s, end |-> e, text |-> x]
BackendKinds == {"empty", "blank", "textonly", "one", "two", "err"}
BackendResult(kind, n) ==
  CASE kind = "empty"    -> [segments |-> <<>>, text |-> ""]
    [] kind = "blank"    -> [segments |-> <<>>, text |-> " "]
    [] kind = "textonly" -> [segments |-> <<>>, text |-> " hi "]
    [] kind = "one"      -> [segments |-> <<Seg(0, n, " hi ")>>, text |-> " hi "]
    [] kind = "two"      -> [segments |-> <<Seg(0, n \div 2, "helo"), Seg(n \div 2, n, "hi")>>,
                             text |-> "helo hi"]

\* str::trim on the texts of the stub
Trim(x) ==
  CASE x = " hi " -> "hi"
    [] x = " "    -> ""
    [] OTHER      -> x

\* apply_custom_words with the word list ["hello"]: a close word is replaced
ApplyCustomWords(x) ==
  CASE x = "helo"    -> "hello"
    [] x = "helo hi" -> "hello hi"
    [] OTHER         -> x

\* --------------------------------------------------------------- chunking
ChunkSize == SampleRate * ChunkSeconds

\* (mutant) only the full slices, a shorter last one left out
Chunks_FullOnly(len) == [k \in 1..(len \div ChunkSize) |-> ChunkSize]

\* lines 513-518: audio.chunks(chunk_size), as the lengths of the slices
RECURSIVE Chunks(_)
Chunks(len) ==
  IF len = 0 THEN <<>>
  ELSE IF len <= ChunkSize THEN <<len>>
  ELSE <<ChunkSize>> \o Chunks(len - ChunkSize)

\* (mutant) the segments left in chunk-local time
ShiftSegments_Unshifted(segs, offset) == segs

\* lines 608-612: shift the chunk's segments by previous_end_time
ShiftSegments(segs, offset) ==
  [k \in 1..Len(segs) |->
     Seg(segs[k].start + offset, segs[k].end + offset, segs[k].text)]

\* (mutant) the nominal five seconds for every chunk
NextEndTime_Nominal(previous_end_time, chunk_len) == previous_end_time + ChunkSize

\* lines 619-620: previous_end_time += chunk.len() as f32 / 16000.0
NextEndTime(previous_end_time, chunk_len) == previous_end_time + chunk_len

\* lines 629-642, 674-686: custom words when the list is non-empty, then trim
CorrectText(x) ==
  Trim(IF settings.custom_words THEN ApplyCustomWords(x) ELSE x)
ToSegments(segs) ==
  [k \in 1..Len(segs) |-> Seg(segs[k].start, segs[k].end, CorrectText(segs[k].text))]

\* lines 625-656: the chunk's batch: its corrected segments, or, when there
\* are none and the text is not blank, one segment spanning the chunk
ChunkBatch(shifted, text, end_time, chunk_len) ==
  IF shifted # <<>> THEN ToSegments(shifted)
  ELSE IF Trim(text) # "" THEN <<Seg(end_time - chunk_len, end_time, Trim(text))>>
  ELSE <<>>

\* (mutant) a progress event for every chunk
EmitsProgress_Always(batch) == TRUE

\* line 659: the progress event is emitted if the batch is not empty
EmitsProgress(batch) == batch # <<>>

\* line 667: what a chunk adds to full_segments_accum
Accumulate(acc, shifted, batch) == acc \o shifted

\* line 691: the texts joined with single spaces
RECURSIVE JoinTexts(_)
JoinTexts(segs) ==
  IF segs = <<>> THEN ""
  ELSE IF Len(segs) = 1 THEN segs[1].text
  ELSE segs[1].text \o " " \o JoinTexts(Tail(segs))

\* lines 565-575: the language handed to Whisper
WhisperLanguage(selected_language) ==
  IF selected_language = "auto" THEN None
  ELSE IF selected_language = "zh-Hans" \/ selected_language = "zh-Hant" THEN "zh"
  ELSE selected_language

\* ----------------------------------------------- maybe_unload_immediately
\* lines 240-248: read the settings; if Immediately and is_model_loaded()
\* (under the engine lock), unload_model()
MaybeUnloadImmediately(t) ==
  /\ pc(t) = "MU"
  /\ engineLock = Free
  /\ th' = [(IF settings.model_unload_timeout = "Immediately" /\ engine # None
               THEN Goto(t, "U1") ELSE Return(t, "ok"))
            EXCEPT ![t].unload_mode = settings.model_unload_timeout]
  /\ UNCHANGED <<lifecycle, is_loading, locks, cancel, sinceActivity,
                 shutdown_signal, watcher_handle, env, spawned, calls, ev>>

\* ----------------------------------------------------------- transcribe
OkOut(text, segs) == [status |-> "ok", text |-> text, segments |-> segs]
ErrOut(msg) == [status |-> "err", text |-> msg, segments |-> <<>>]

\* (mutant) the empty buffer returned without the unload policy
TranscribeEntry_NoPolicy(t) ==
  /\ pc(t) = "T0"
  /\ sinceActivity' = 0
  /\ th' = IF th[t].audio = 0
             THEN [Goto(t, "T_ret") EXCEPT ![t].out = OkOut("", <<>>)]
             ELSE Goto(t, "T_wait")
  /\ UNCHANGED <<lifecycle, is_loading, locks, cancel, shutdown_signal,
                 watcher_handle, env, spawned, calls, ev>>

\* lines 453-470: store last_activity; on an empty buffer apply the immediate
\* unload policy and return Ok(("", []))
TranscribeEntry(t) ==
  /\ pc(t) = "T0"
  /\ sinceActivity' = 0
  /\ th' = IF th[t].audio = 0
             THEN [Call(t, "MU", "T_ret") EXCEPT ![t].out = OkOut("", <<>>)]
             ELSE Goto(t, "T_wait")
  /\ UNCHANGED <<lifecycle, is_loading, locks, cancel, shutdown_signal,
                 watcher_handle, env, spawned, calls, ev>>

\* lines 475-478: take the is_loading lock and wait on the condvar while the
\* flag is set (the wait gives the lock back)
TranscribeWait(t) ==
  /\ pc(t) = "T_wait"
  /\ loadingLock = Free
  /\ ~is_loading
  /\ loadingLock' = t
  /\ th' = Goto(t, "T_chk")
  /\ UNCHANGED <<lifecycle, is_loading, engineLock, cancel, sinceActivity,
                 shutdown_signal, watcher_handle, env, spawned, calls, ev>>

\* (mutant) the transcription goes on without looking into the slot
TranscribeCheckLoaded_NoCheck(t) ==
  /\ pc(t) = "T_chk"
  /\ engineLock = Free
  /\ loadingLock' = Free
  /\ th' = Goto(t, "T_tok")
  /\ UNCHANGED <<lifecycle, is_loading, engineLock, cancel, sinceActivity,
                 shutdown_signal, watcher_handle, env, spawned, calls, ev>>

\* lines 480-484: under both locks, fail if the slot is empty
TranscribeCheckLoaded(t) ==
  /\ pc(t) = "T_chk"
  /\ engineLock = Free
  /\ loadingLock' = Free
  /\ th' = IF engine = None
             THEN [Return(t, "err") EXCEPT
                     ![t].out = ErrOut("Model is not loaded for transcription.")]
             ELSE Goto(t, "T_tok")
  /\ UNCHANGED <<lifecycle, is_loading, engineLock, cancel, sinceActivity,
                 shutdown_signal, watcher_handle, env, spawned, calls, ev>>

\* lines 490-500: the caller's options override the settings
EffectiveLanguage(opts) ==
  IF ~opts.given THEN settings.selected_language
  ELSE IF opts.language = None THEN settings.selected_language
  ELSE opts.language
EffectiveTranslate(opts) ==
  IF ~opts.given THEN settings.translate_to_english ELSE opts.translate

\* lines 487-526: resolve the options, create a token and put it into the
\* cancellation slot, set up the loop
TranscribeInstallToken(t) ==
  /\ pc(t) = "T_tok"
  /\ tokenFlag' = Append(tokenFlag, FALSE)
  /\ tokenSlot' = Len(tokenFlag) + 1
  /\ th' = [Goto(t, "T_poll") EXCEPT
              ![t].tok = Len(tokenFlag) + 1,
              ![t].language = EffectiveLanguage(th[t].opts),
              ![t].translate = EffectiveTranslate(th[t].opts)]
  /\ UNCHANGED <<lifecycle, is_loading, locks, sinceActivity,
                 shutdown_signal, watcher_handle, env, spawned, calls, ev>>

\* (mutant) the poll that never sees the token
CancellationIgnored(t) == FALSE

\* line 530: cancellation_token.load()
CancellationObserved(t) == tokenFlag[th[t].tok]

\* lines 528-549: the head of the loop: leave it when the chunks are used up
\* or the token is set; else go on to this chunk
TranscribePoll(t) ==
  /\ pc(t) = "T_poll"
  /\ th' = IF th[t].i = Len(Chunks(th[t].audio)) THEN Goto(t, "T_fin")
           ELSE IF CancellationObserved(t)
             THEN [Goto(t, "T_fin") EXCEPT ![t].was_cancelled = TRUE]
           ELSE IF th[t].translate THEN Goto(t, "E1")
           ELSE Goto(t, "T_inf")
  /\ UNCHANGED <<lifecycle, is_loading, locks, cancel, sinceActivity,
                 shutdown_signal, watcher_handle, env, spawned, calls, ev>>

\* ------------------------------------- ensure_translation_capable_engine
\* lines 162-169: is a Parakeet engine in the slot?
EnsureCheck(t) ==
  /\ pc(t) = "E1"
  /\ engineLock = Free
  /\ th' = Goto(t, IF engine # None /\ EngineType(engine) = "Parakeet"
                     THEN "E2" ELSE "T_inf")
  /\ UNCHANGED <<lifecycle, is_loading, locks, cancel, sinceActivity,
                 shutdown_signal, watcher_handle, env, spawned, calls, ev>>

\* (mutant) the catalog's score also for the turbo models
EffectiveScore_NoTurbo(m) == Catalog[m].accuracy_score

\* lines 180-181: the score the switcher compares
EffectiveScore(m) == IF Catalog[m].turbo THEN TurboScore ELSE Catalog[m].accuracy_score

\* lines 176-183: the downloaded Whisper models, and those max_by may return
\* (which of several equal maxima depends on the catalog's iteration order)
WhisperCandidates == {m \in CatalogIds : EngineType(m) = "Whisper" /\ IsDownloaded(m)}
BestWhisper ==
  {m \in WhisperCandidates :
     \A o \in WhisperCandidates : EffectiveScore(o) <= EffectiveScore(m)}

\* (mutant) no downloaded Whisper model is an error of the transcription
EnsureSwitch_Abort(t) ==
  /\ pc(t) = "E2"
  /\ IF WhisperCandidates = {}
       THEN th' = [Return(t, "err") EXCEPT ![t].out = ErrOut("no Whisper model")]
       ELSE \E m \in BestWhisper :
              th' = [Call(t, "L1", "T_inf") EXCEPT ![t].m = m]
  /\ UNCHANGED <<lifecycle, is_loading, locks, cancel, sinceActivity,
                 shutdown_signal, watcher_handle, env, spawned, calls, ev>>

\* lines 185-190: load the best Whisper model, or go on with Parakeet
EnsureSwitch(t) ==
  /\ pc(t) = "E2"
  /\ IF WhisperCandidates = {}
       THEN th' = Goto(t, "T_inf")
       ELSE \E m \in BestWhisper :
              th' = [Call(t, "L1", "T_inf") EXCEPT ![t].m = m]
  /\ UNCHANGED <<lifecycle, is_loading, locks, cancel, sinceActivity,
                 shutdown_signal, watcher_handle, env, spawned, calls, ev>>

\* lines 553-581: take the engine lock; fail if the slot is empty; else build
\* the parameters for the engine in the slot and call it.  The record of the
\* call also notes whether the token was set when the call began.  Whisper's
\* parameters are language, translate and the defaults (line 580), so no
\* initial prompt; Parakeet's have no such field.
BackendCall(t) ==
  [ len |-> Chunks(th[t].audio)[th[t].i + 1],
    model |-> engine,
    language |-> IF EngineType(engine) = "Whisper"
                   THEN WhisperLanguage(th[t].language) ELSE None,
    translate |-> EngineType(engine) = "Whisper" /\ th[t].translate,
    initial_prompt |-> None,
    cancelled |-> tokenFlag[th[t].tok] ]

\* (mutant) the guard given back before the backend is called
EngineGuard_Dropped(t) == Free

\* lines 553-605: engine_guard lives to the end of the block, so the thread
\* holds the engine lock for the whole backend call
EngineGuard(t) == t

TranscribeLockEngine(t) ==
  /\ pc(t) = "T_inf"
  /\ engineLock = Free
  /\ IF engine = None
       THEN /\ th' = [Return(t, "err") EXCEPT
                        ![t].out = ErrOut("Model failed to load.")]
            /\ engineLock' = engineLock
       ELSE /\ th' = [Goto(t, "T_call") EXCEPT
                        ![t].backend = Append(@, BackendCall(t))]
            /\ engineLock' = EngineGuard(t)
  /\ UNCHANGED <<lifecycle, is_loading, loadingLock, cancel, sinceActivity,
                 shutdown_signal, watcher_handle, env, spawned, calls, ev>>

\* lines 583-667: the backend call returns and the lock is given back; on an
\* error the transcription is aborted; else the segments are shifted, the
\* offset advanced, the batch built and emitted, the segments accumulated
TranscribeChunk(t, kind) ==
  /\ pc(t) = "T_call"
  /\ engineLock' = Free
  /\ IF kind = "err"
       THEN th' = [Return(t, "err") EXCEPT
                     ![t].out = ErrOut("transcription failed")]
       ELSE LET len == Chunks(th[t].audio)[th[t].i + 1]
                result == BackendResult(kind, len)
                shifted == ShiftSegments(result.segments, th[t].previous_end_time)
                end_time == NextEndTime(th[t].previous_end_time, len)
                batch == ChunkBatch(shifted, result.text, end_time, len)
            IN th' = [Goto(t, "T_poll") EXCEPT
                        ![t].previous_end_time = end_time,
                        ![t].progress = IF EmitsProgress(batch) THEN Append(@, batch) ELSE @,
                        ![t].acc = Accumulate(@, shifted, batch),
                        ![t].i = @ + 1]
  /\ UNCHANGED <<lifecycle, is_loading, loadingLock, cancel, sinceActivity,
                 shutdown_signal, watcher_handle, env, spawned, calls, ev>>

\* lines 673-714: build the final segments and text, then apply the
\* immediate unload policy
TranscribeFinish(t) ==
  /\ pc(t) = "T_fin"
  /\ LET final_segments == ToSegments(th[t].acc) IN
       th' = [Call(t, "MU", "T_ret") EXCEPT
                ![t].out = OkOut(JoinTexts(final_segments), final_segments)]
  /\ UNCHANGED <<lifecycle, is_loading, locks, cancel, sinceActivity,
                 shutdown_signal, watcher_handle, env, spawned, calls, ev>>

\* lines 469, 716: return Ok
TranscribeReturn(t) ==
  /\ pc(t) = "T_ret"
  /\ th' = Return(t, "ok")
  /\ UNCHANGED <<lifecycle, is_loading, locks, cancel, sinceActivity,
                 shutdown_signal, watcher_handle, env, spawned, calls, ev>>

\* -------------------------------------------------------- transcribe_file
\* lines 391-400: store last_activity and call initiate_model_load
FileEntry(t) ==
  /\ pc(t) = "F0"
  /\ sinceActivity' = 0
  /\ th' = Call(t, "I1", "F_wait")
  /\ UNCHANGED <<lifecycle, is_loading, locks, cancel, shutdown_signal,
                 watcher_handle, env, spawned, calls, ev>>

\* lines 404-407: take the is_loading lock and wait while the flag is set
FileWait(t) ==
  /\ pc(t) = "F_wait"
  /\ loadingLock = Free
  /\ ~is_loading
  /\ loadingLock' = t
  /\ th' = Goto(t, "F_chk")
  /\ UNCHANGED <<lifecycle, is_loading, engineLock, cancel, sinceActivity,
                 shutdown_signal, watcher_handle, env, spawned, calls, ev>>

\* lines 409-413: under both locks, fail if the slot is empty
FileCheckLoaded(t) ==
  /\ pc(t) = "F_chk"
  /\ engineLock = Free
  /\ loadingLock' = Free
  /\ th' = IF engine = None
             THEN [Return(t, "err") EXCEPT
                     ![t].out = ErrOut("Model is not loaded for transcription.")]
             ELSE Goto(t, "F_read")
  /\ UNCHANGED <<lifecycle, is_loading, engineLock, cancel, sinceActivity,
                 shutdown_signal, watcher_handle, env, spawned, calls, ev>>

\* read_audio_file's result when it is an error
Undecodable == 0 - 1

\* lines 417-425: decode the file (an error returns through `?`), then call
\* transcribe on the samples
FileRead(t, contents) ==
  /\ pc(t) = "F_read"
  /\ th' = IF contents = Undecodable
             THEN [Return(t, "err") EXCEPT ![t].out = ErrOut("decode")]
             ELSE [Call(t, "T0", "F_done") EXCEPT ![t].audio = contents]
  /\ UNCHANGED <<lifecycle, is_loading, locks, cancel, sinceActivity,
                 shutdown_signal, watcher_handle, env, spawned, calls, ev>>

\* (mutant) the completion event emitted whatever transcribe returned
FileCompletedEmitted_Always(res) == TRUE

\* line 425: the `?` after transcribe: the emit is reached only on Ok
FileCompletedEmitted(res) == res = "ok"

\* lines 425-443: an error of transcribe returns through `?`; else emit
\* file-transcription-completed and return Ok
FileDone(t) ==
  /\ pc(t) = "F_done"
  /\ th' = [Return(t, th[t].res) EXCEPT
              ![t].file_completed =
                 IF FileCompletedEmitted(th[t].res) THEN @ + 1 ELSE @,
              ![t].file_progress =
                 IF FileCompletedEmitted(th[t].res) THEN Len(th[t].progress) ELSE @]
  /\ UNCHANGED <<lifecycle, is_loading, locks, cancel, sinceActivity,
                 shutdown_signal, watcher_handle, env, spawned, calls, ev>>

\* --------------------------------------------- cancel_current_transcription
\* lines 151-159: set the flag of the token in the slot, if there is one
SetToken == IF tokenSlot = 0 THEN tokenFlag ELSE [tokenFlag EXCEPT ![tokenSlot] = TRUE]

\* -------------------------------------------------------- calls of the host
CanCall(t) == pc(t) = "idle" /\ calls < MaxCalls
Enter(t, op, entry) == [th EXCEPT ![t] = [NoLocals EXCEPT !.stack = <<entry>>, !.op = op]]

HostLoadModel(t, m) ==
  /\ CanCall(t)
  /\ calls' = calls + 1
  /\ th' = [Enter(t, "load_model", "L1") EXCEPT ![t].m = m]
  /\ UNCHANGED <<lifecycle, is_loading, locks, cancel, sinceActivity,
                 shutdown_signal, watcher_handle, env, spawned, ev>>

\* commands/transcription.rs, unload_model_manually
HostUnloadModel(t) ==
  /\ CanCall(t)
  /\ calls' = calls + 1
  /\ th' = Enter(t, "unload_model", "U1")
  /\ UNCHANGED <<lifecycle, is_loading, locks, cancel, sinceActivity,
                 shutdown_signal, watcher_handle, env, spawned, ev>>

HostInitiateModelLoad(t) ==
  /\ CanCall(t)
  /\ calls' = calls + 1
  /\ th' = Enter(t, "initiate_model_load", "I1")
  /\ UNCHANGED <<lifecycle, is_loading, locks, cancel, sinceActivity,
                 shutdown_signal, watcher_handle, env, spawned, ev>>

HostTranscribe(t, len, opts) ==
  /\ CanCall(t)
  /\ calls' = calls + 1
  /\ th' = [Enter(t, "transcribe", "T0") EXCEPT
              ![t].audio = len, ![t].opts = opts,
              ![t].entry = [loads_started |-> ev.loading_started,
                            load_running |-> \E u \in Threads : InLoad(u)]]
  /\ UNCHANGED <<lifecycle, is_loading, locks, cancel, sinceActivity,
                 shutdown_signal, watcher_handle, env, spawned, ev>>

\* commands/transcription.rs, transcribe_file
HostTranscribeFile(t, opts) ==
  /\ CanCall(t)
  /\ calls' = calls + 1
  /\ th' = [Enter(t, "transcribe_file", "F0") EXCEPT ![t].opts = opts]
  /\ UNCHANGED <<lifecycle, is_loading, locks, cancel, sinceActivity,
                 shutdown_signal, watcher_handle, env, spawned, ev>>

HostCancel(t) ==
  /\ CanCall(t)
  /\ calls' = calls + 1
  /\ tokenFlag' = SetToken
  /\ th' = [th EXCEPT ![t] = [NoLocals EXCEPT !.op = "cancel", !.res = "ok"]]
  /\ UNCHANGED <<lifecycle, is_loading, locks, tokenSlot, sinceActivity,
                 shutdown_signal, watcher_handle, env, spawned, ev>>

\* commands/transcription.rs, set_model_unload_timeout
HostSetUnloadTimeout(t, timeout) ==
  /\ CanCall(t)
  /\ calls' = calls + 1
  /\ settings.model_unload_timeout # timeout
  /\ settings' = [settings EXCEPT !.model_unload_timeout = timeout]
  /\ th' = [th EXCEPT ![t] = [NoLocals EXCEPT !.op = "set_timeout", !.res = "ok"]]
  /\ UNCHANGED <<lifecycle, is_loading, locks, cancel, sinceActivity,
                 shutdown_signal, watcher_handle, disk, spawned, ev>>

\* ------------------------------------------------------------ steps by role
\* the steps of load_model and unload_model, whoever called them
UnloadStep(t) ==
  \/ UnloadEngine(t)
  \/ UnloadClearId(t)

LoadStep(t) ==
  \/ LoadModelLookup(t)
  \/ LoadModelBackend(t)
  \/ LoadModelStore(t)
  \/ LoadModelSetId(t)

InitiateStep(t) ==
  \/ InitiateLock(t)
  \/ InitiateCheck(t)

LoaderStep(t) ==
  \/ LoaderStart(t)
  \/ LoaderFinish(t)
  \/ LoaderDropSignal(t)
  \/ DropTakeHandle(t)

WatcherStep(t) ==
  \/ WatcherLoop(t)
  \/ WatcherWake(t)
  \/ WatcherCheckLoaded(t)
  \/ WatcherEmit(t)
  \/ WatcherDrop(t)

TranscribeStep(t) ==
  \/ TranscribeEntry(t)
  \/ TranscribeWait(t)
  \/ TranscribeCheckLoaded(t)
  \/ TranscribeInstallToken(t)
  \/ TranscribePoll(t)
  \/ TranscribeLockEngine(t)
  \/ TranscribeFinish(t)
  \/ MaybeUnloadImmediately(t)
  \/ TranscribeReturn(t)

SwitchStep(t) ==
  \/ EnsureCheck(t)
  \/ EnsureSwitch(t)

FileStep(t) ==
  \/ FileEntry(t)
  \/ FileWait(t)
  \/ FileCheckLoaded(t)
  \/ FileDone(t)

\* ------------------------------------------------------------------- Init
\* the state after TranscriptionManager::new (lines 69-149), with the
\* settings and the model files as the host has them
NoOptions == [given |-> FALSE, language |-> None, translate |-> FALSE]
Translate == [given |-> TRUE, language |-> None, translate |-> TRUE]

SettingsOf(timeout, model) ==
  [ model_unload_timeout |-> timeout, selected_model |-> model,
    selected_language |-> "auto", translate_to_english |-> FALSE,
    custom_words |-> TRUE ]

AllPresent == [m \in CatalogIds |-> "present"]

InitWith(settingsChoices, diskChoices) ==
  /\ engine = None
  /\ current_model_id = None
  /\ is_loading = FALSE
  /\ engineLock = Free
  /\ loadingLock = Free
  /\ tokenSlot = 0
  /\ tokenFlag = <<>>
  /\ sinceActivity = 0
  /\ shutdown_signal = FALSE
  /\ watcher_handle = "some"
  /\ settings \in settingsChoices
  /\ disk \in diskChoices
  /\ spawned = 0
  /\ calls = 0
  /\ ev = [loading_started |-> 0, loading_completed |-> 0,
           loading_failed |-> 0, unloaded |-> 0]
  /\ th = [t \in Threads |->
             IF t = Watcher
               THEN [NoLocals EXCEPT !.stack = <<"W_loop">>, !.op = "watcher"]
               ELSE NoLocals]

\* ------------------------------------------------ the lifecycle controller
\* load_model, unload_model and initiate_model_load called concurrently, the
\* loader thread and the idle watcher
Init ==
  InitWith({SettingsOf("After", "parakeet")}, {AllPresent})

Next ==
  \/ \E t \in Callers : \E m \in {"parakeet", "small"} : HostLoadModel(t, m)
  \/ \E t \in Callers : HostUnloadModel(t)
  \/ \E t \in Callers : HostInitiateModelLoad(t)
  \/ \E t \in Threads : LoadStep(t)
  \/ \E t \in Threads : UnloadStep(t)
  \/ \E t \in Callers : InitiateStep(t)
  \/ \E t \in Loaders : LoaderStep(t)
  \/ WatcherStep(Watcher)
  \/ Tick

Spec == Init /\ [][Next]_vars


\* ------------------------------------------------- the inference pipeline
\* one thread loads a model and transcribes buffers, one after the other,
\* while the other threads of the host cancel
Main == CHOOSE t \in Callers : \A u \in Callers : t <= u
Others == Callers \ {Main}
HalfChunk == ChunkSize \div 2
AudioLengths == {0, HalfChunk, ChunkSize, ChunkSize + HalfChunk, 2 * ChunkSize}

NoWhisper == [m \in CatalogIds |-> IF EngineType(m) = "Whisper" THEN "missing" ELSE "present"]
InitPipe ==
  InitWith({SettingsOf(tm, "parakeet") : tm \in {"Never", "Immediately"}},
           {AllPresent, [AllPresent EXCEPT !["medium_turbo"] = "missing"], NoWhisper})

NextPipe ==
  \/ \E m \in {"parakeet", "small"} : HostLoadModel(Main, m)
  \/ \E len \in AudioLengths : \E o \in {NoOptions, Translate} :
        HostTranscribe(Main, len, o)
  \/ \E t \in Others : HostCancel(t)
  \/ LoadStep(Main)
  \/ UnloadStep(Main)
  \/ TranscribeStep(Main)
  \/ \E kind \in BackendKinds : TranscribeChunk(Main, kind)
  \/ SwitchStep(Main)

SpecPipe == InitPipe /\ [][NextPipe]_vars

\* ---------------------------------------------- the immediate unload policy
\* buffers are transcribed while the host loads and unloads models and
\* changes the unload mode
InitUnload == InitWith({SettingsOf("Immediately", "parakeet")}, {AllPresent})

NextUnload ==
  \/ \E t \in Callers : HostLoadModel(t, "parakeet")
  \/ \E t \in Callers : HostUnloadModel(t)
  \/ \E t \in Callers : \E len \in {0, HalfChunk} : HostTranscribe(t, len, NoOptions)
  \/ \E t \in Callers : \E tm \in {"Never", "Immediately"} : HostSetUnloadTimeout(t, tm)
  \/ \E t \in Callers : LoadStep(t)
  \/ \E t \in Callers : UnloadStep(t)
  \/ \E t \in Callers : TranscribeStep(t)
  \/ \E t \in Callers : \E kind \in {"one", "err"} : TranscribeChunk(t, kind)

SpecUnload == InitUnload /\ [][NextUnload]_vars

\* -------------------------------------------- initiate_model_load, alone
\* the host only calls initiate_model_load, from the Unloaded state; the
\* selected model's files may be missing and the backend load may fail
InitInitiate ==
  InitWith({SettingsOf("Never", "parakeet")},
           {AllPresent, [AllPresent EXCEPT !["parakeet"] = "missing"]})

NextInitiate ==
  \/ \E t \in Callers : HostInitiateModelLoad(t)
  \/ \E t \in Callers : InitiateStep(t)
  \/ \E t \in Loaders : LoaderStep(t)
  \/ \E t \in Loaders : LoadStep(t)

SpecInitiate == InitInitiate /\ [][NextInitiate]_vars


\* ------------------------------------------------------- the idle unload
\* the mode is After(n); the host loads the selected model, directly or in
\* the background, and then leaves the manager alone.  Every thread that
\* can take a step is scheduled, and the clock moves on.
InitIdle == InitWith({SettingsOf("After", "parakeet")}, {AllPresent})

NextIdle ==
  \/ \E t \in Callers : HostLoadModel(t, "parakeet")
  \/ \E t \in Callers : HostInitiateModelLoad(t)
  \/ \E t \in Callers : InitiateStep(t)
  \/ \E t \in Callers \cup Loaders : LoadStep(t)
  \/ \E t \in Loaders : LoaderStep(t)
  \/ UnloadStep(Watcher)
  \/ WatcherStep(Watcher)
  \/ Tick

FairIdle ==
  /\ \A t \in Callers : WF_vars(InitiateStep(t))
  /\ \A t \in Callers \cup Loaders : WF_vars(LoadStep(t))
  /\ \A t \in Loaders : WF_vars(LoaderStep(t))
  /\ WF_vars(UnloadStep(Watcher))
  /\ WF_vars(WatcherStep(Watcher))
  /\ WF_vars(Tick)

SpecIdle == InitIdle /\ [][NextIdle]_vars /\ FairIdle

\* ------------------------------------------- load and unload, one at a time
\* one thread loads and unloads, each call made after the one before it has
\* returned; the model asked for may be unknown to the catalog, not
\* downloaded, or without a usable path, and the backend load may fail
Unknown == "ghost"
LoadIds == {"parakeet", "small", Unknown}
DiskChoices ==
  { AllPresent,
    [AllPresent EXCEPT !["small"] = "missing"],
    [AllPresent EXCEPT !["small"] = "broken"] }

InitLoad == InitWith({SettingsOf("Never", "parakeet")}, DiskChoices)

NextLoad ==
  \/ \E m \in LoadIds : HostLoadModel(Main, m)
  \/ HostUnloadModel(Main)
  \/ LoadStep(Main)
  \/ UnloadStep(Main)

SpecLoad == InitLoad /\ [][NextLoad]_vars

\* --------------------------------------------------------- transcribe_file
\* one thread transcribes files, one after the other, from the Unloaded
\* state, while the other threads of the host cancel; the selected model may
\* not be downloaded and a file may not be decodable
\* what read_audio_file may give: an error, or the samples of the file
FileContents == {Undecodable} \cup AudioLengths

InitFile ==
  InitWith({SettingsOf("Never", "parakeet")},
           {AllPresent, [AllPresent EXCEPT !["parakeet"] = "missing"]})

NextFile ==
  \/ HostTranscribeFile(Main, NoOptions)
  \/ \E t \in Others : HostCancel(t)
  \/ FileStep(Main)
  \/ \E contents \in FileContents : FileRead(Main, contents)
  \/ InitiateStep(Main)
  \/ \E t \in Loaders : LoaderStep(t)
  \/ \E t \in Loaders : LoadStep(t)
  \/ TranscribeStep(Main)
  \/ \E kind \in BackendKinds : TranscribeChunk(Main, kind)

SpecFile == InitFile /\ [][NextFile]_vars

\* ------------------------------------- transcriptions and the idle watcher
\* the threads of the host load, unload and transcribe concurrently and
\* change the unload mode, while the idle watcher runs and the clock moves
InitWatch == InitWith({SettingsOf("After", "parakeet")}, {AllPresent})

NextWatch ==
  \/ \E t \in Callers : HostLoadModel(t, "parakeet")
  \/ \E t \in Callers : HostUnloadModel(t)
  \/ \E t \in Callers : HostTranscribe(t, ChunkSize + HalfChunk, NoOptions)
  \/ \E t \in Others : \E tm \in {"Never", "Immediately"} : HostSetUnloadTimeout(t, tm)
  \/ \E t \in Callers : LoadStep(t)
  \/ \E t \in Callers \cup {Watcher} : UnloadStep(t)
  \/ \E t \in Callers : TranscribeStep(t)
  \/ \E t \in Callers : TranscribeChunk(t, "one")
  \/ WatcherLoop(Watcher)
  \/ WatcherWake(Watcher)
  \/ WatcherCheckLoaded(Watcher)
  \/ WatcherEmit(Watcher)
  \/ Tick

SpecWatch == InitWatch /\ [][NextWatch]_vars

\* ------------------------------------------------ the idle watcher's ticks
\* the watcher runs in every unload mode while one thread loads the selected
\* model, directly or in the background, and marks activity with an empty
\* buffer, and the other threads change the mode; the end of a background
\* load sets the shutdown signal
InitTicks ==
  InitWith({SettingsOf(tm, "parakeet") : tm \in {"Never", "Immediately", "After"}},
           {AllPresent})

NextTicks ==
  \/ HostLoadModel(Main, "parakeet")
  \/ HostInitiateModelLoad(Main)
  \/ HostTranscribe(Main, 0, NoOptions)
  \/ \E t \in Others : \E tm \in {"Never", "Immediately", "After"} :
        HostSetUnloadTimeout(t, tm)
  \/ InitiateStep(Main)
  \/ \E t \in Loaders : LoaderStep(t)
  \/ \E t \in Loaders \cup {Main} : LoadStep(t)
  \/ \E t \in {Main, Watcher} : UnloadStep(t)
  \/ TranscribeEntry(Main)
  \/ MaybeUnloadImmediately(Main)
  \/ TranscribeReturn(Main)
  \/ WatcherStep(Watcher)
  \/ Tick

SpecTicks == InitTicks /\ [][NextTicks]_vars

\* ------------------------------------------------- waiting for a load
\* one thread starts background loads and transcribes files, the others
\* transcribe buffers; the selected model may not be downloaded and the
\* backend load may fail.  Every thread that can take a step is scheduled.
InitWait ==
  InitWith({SettingsOf("Never", "parakeet")},
           {AllPresent, [AllPresent EXCEPT !["parakeet"] = "missing"]})

NextWait ==
  \/ HostInitiateModelLoad(Main)
  \/ HostTranscribeFile(Main, NoOptions)
  \/ \E t \in Others : HostTranscribe(t, HalfChunk, NoOptions)
  \/ InitiateStep(Main)
  \/ \E t \in Loaders : LoaderStep(t)
  \/ \E t \in Loaders : LoadStep(t)
  \/ FileStep(Main)
  \/ \E contents \in {Undecodable, HalfChunk} : FileRead(Main, contents)
  \/ \E t \in Callers : TranscribeStep(t)
  \/ \E t \in Callers : \E kind \in {"one", "err"} : TranscribeChunk(t, kind)

FairWait ==
  /\ WF_vars(InitiateStep(Main))
  /\ \A t \in Loaders : WF_vars(LoaderStep(t))
  /\ \A t \in Loaders : WF_vars(LoadStep(t))
  /\ WF_vars(FileStep(Main))
  /\ WF_vars(\E contents \in {Undecodable, HalfChunk} : FileRead(Main, contents))
  /\ \A t \in Callers : WF_vars(TranscribeStep(t))
  /\ \A t \in Callers : WF_vars(\E kind \in {"one", "err"} : TranscribeChunk(t, kind))

SpecWait == InitWait /\ [][NextWait]_vars /\ FairWait

\* ------------------------------------------------ the language of a call
\* one thread loads a model and transcribes short buffers in the languages
\* the caller may ask for
Languages == {"auto", "en", "zh-Hans", "zh-Hant", "zh-TW"}
LanguageOptions ==
  {NoOptions} \cup {[given |-> TRUE, language |-> l, translate |-> FALSE] : l \in Languages}

InitLang == InitWith({SettingsOf("Never", "small")}, {AllPresent})

NextLang ==
  \/ \E m \in {"parakeet", "small"} : HostLoadModel(Main, m)
  \/ \E o \in LanguageOptions : HostTranscribe(Main, HalfChunk, o)
  \/ LoadStep(Main)
  \/ TranscribeStep(Main)
  \/ \E kind \in {"one", "err"} : TranscribeChunk(Main, kind)

SpecLang == InitLang /\ [][NextLang]_vars

\* =================================================================== claims
Returned(t, op) == th[t].op = op /\ pc(t) = "idle" /\ th[t].res # ""

\* C1: at every moment at most one engine holding loaded weights exists, also
\* while load_model(m') runs with a model m resident (checked here in the
\* states in which at most one load_model call is running).
C1_AtMostOneEngine ==
  Cardinality({t \in Threads : InLoad(t)}) <= 1 => EngineInstances <= 1

\* C2: whenever no load_model or unload_model call is part-way through, the
\* engine slot is non-empty exactly when current_model_id is Some(m), and m
\* is the model the resident engine was loaded from.
Quiescent == \A t \in Threads : ~InLoad(t) /\ ~InUnload(t)
C2_SlotMatchesModelId == Quiescent => current_model_id = engine

\* C3 (as stated): the initiate_model_load calls issued from the Unloaded
\* state start exactly one backend load: once every call has returned and
\* every loader has finished loading, one backend load has been made.
LoadersInFlight == {l \in Loaders : pc(l) \in {"LD0", "LD1"} \/ InLoad(l)}
BackendLoads == Cardinality({l \in Loaders : th[l].nload > 0})
InitiateSettled ==
  /\ calls > 0
  /\ \A t \in Callers : pc(t) = "idle"
  /\ LoadersInFlight = {}
C3_ExactlyOneBackendLoad == InitiateSettled => BackendLoads = 1

\* C3 (amended): at most one loader is in flight at any time, and is_loading
\* is set exactly while one is; if no load has failed, the calls have started
\* exactly one backend load once they are settled; a call that finds
\* is_loading set or an engine resident spawns no loader and changes nothing
\* but its own position and the lock it gives back.
C3_OneLoaderInFlight ==
  /\ Cardinality(LoadersInFlight) <= 1
  /\ is_loading <=> LoadersInFlight # {}
  /\ (InitiateSettled /\ ev.loading_failed = 0 /\ ev.loading_started = ev.loading_completed)
        => BackendLoads = 1
C3_NoopWhenLoadingOrLoaded ==
  \A t \in Callers :
    (pc(t) = "I2" /\ AlreadyLoadingOrLoaded /\ th'[t] # th[t]) =>
       /\ spawned' = spawned
       /\ is_loading' = is_loading
       /\ <<lifecycle, cancel, ev, env, sinceActivity, shutdown_signal>>' =
          <<lifecycle, cancel, ev, env, sinceActivity, shutdown_signal>>
       /\ \A u \in Threads \ {t} : th'[u] = th[u]
C3_Amended == []C3_OneLoaderInFlight /\ [][C3_NoopWhenLoadingOrLoaded]_vars

\* C3 witness: two calls have returned, one loader was spawned and is still
\* loading: the second call found is_loading set and returned
C3_Witness ==
  /\ calls >= 2
  /\ \A t \in Callers : Returned(t, "initiate_model_load")
  /\ spawned = 1
  /\ is_loading
  /\ \E l \in Loaders : pc(l) = "L_load"

InTranscribe(t) == th[t].op = "transcribe" /\ pc(t) # "idle"
RECURSIVE Flatten(_)
Flatten(batches) == IF batches = <<>> THEN <<>> ELSE Head(batches) \o Flatten(Tail(batches))
Emitted(t) == Flatten(th[t].progress)

\* C4 (as stated): once cancel_current_transcription has set the token of the
\* running transcription, only a backend call already in flight completes: no
\* backend call begins with the token set.
C4_NoCallAfterCancel ==
  \A t \in Callers : \A k \in 1..Len(th[t].backend) : ~th[t].backend[k].cancelled

\* C4 (amended): once the token of the running transcription is set, the loop
\* stops at its next between-chunk poll; at most one backend call begins with
\* the token set (that of the chunk whose poll came before the cancellation),
\* and no chunk after it is passed to the backend.
C4_OnlyLastCallCancelled ==
  \A t \in Callers : \A k \in 1..Len(th[t].backend) :
     th[t].backend[k].cancelled => k = Len(th[t].backend)
C4_PollStops ==
  \A t \in Callers :
    (pc(t) = "T_poll" /\ tokenFlag[th[t].tok] /\ th'[t] # th[t]) =>
       /\ th'[t].stack = <<"T_fin">> \o Tail(th[t].stack)
       /\ th'[t].backend = th[t].backend
C4_Amended == []C4_OnlyLastCallCancelled /\ [][C4_PollStops]_vars

\* C4 witness: a transcription of two chunks was cancelled while its first
\* chunk was with the backend, and returned after that one call
C4_Witness ==
  \E t \in Callers :
    /\ Returned(t, "transcribe")
    /\ th[t].was_cancelled
    /\ Len(Chunks(th[t].audio)) = 2
    /\ Len(th[t].backend) = 1
    /\ ~th[t].backend[1].cancelled

\* C5: a transcribe call whose loop was ended by cancellation returns Ok, and
\* its segments are exactly those of the chunks inferred before, in order.
C5_CancelledResult ==
  \A t \in Callers :
    (Returned(t, "transcribe") /\ th[t].was_cancelled) =>
       /\ th[t].out.status = "ok"
       /\ th[t].out.segments = Emitted(t)

\* C6: the cancellation slot holds a token only from the start of a
\* transcription until it completes: once transcribe has returned Ok and no
\* transcribe call is running, the slot is empty.
C6_SlotEmptyAfterTranscribe ==
  \A t \in Callers :
    (/\ Returned(t, "transcribe")
     /\ th[t].out.status = "ok"
     /\ \A u \in Callers : ~InTranscribe(u)) => tokenSlot = 0

\* C7: with the mode Immediately, when a transcribe call that completes is
\* about to return, the engine slot is empty and current_model_id is None,
\* provided no load ran during the call (checked here only in the states in
\* which no other thread is part-way through a load or an unload).
NoLoadDuring(t) ==
  /\ ~th[t].entry.load_running
  /\ th[t].entry.loads_started = ev.loading_started
  /\ \A u \in Threads \ {t} : ~InLoad(u) /\ ~InUnload(u)
C7_UnloadedAtReturn ==
  \A t \in Callers :
    (pc(t) = "T_ret" /\ th[t].unload_mode = "Immediately" /\ NoLoadDuring(t)) =>
       /\ engine = None
       /\ current_model_id = None

\* C9: with a backend whose segments are ordered and lie within the chunk,
\* every emitted segment has start <= end, and each segment ends no later
\* than the next one starts, across chunks and for synthetic segments.
Monotonic(segs) ==
  /\ \A k \in 1..Len(segs) : segs[k].start <= segs[k].end
  /\ \A k \in 1..(Len(segs) - 1) : segs[k].end <= segs[k + 1].start
C9_EmittedMonotonic == \A t \in Callers : Monotonic(Emitted(t))

\* C9 witness: after a first chunk with a synthetic segment, a short last
\* chunk has emitted two segments
C9_Witness ==
  \E t \in Callers :
    /\ Len(th[t].progress) = 2
    /\ Len(th[t].progress[1]) = 1
    /\ th[t].acc # <<>>
    /\ Len(th[t].acc) = 2
    /\ Len(th[t].progress[2]) = 2
    /\ th[t].progress[2][2].end = ChunkSize + HalfChunk

\* C10: the segment list transcribe returns equals, in order and with the
\* same start, end and text, the concatenation of the batches of the
\* transcription-progress events of that transcription.
C10_ResultIsEmitted ==
  \A t \in Callers :
    (Returned(t, "transcribe") /\ th[t].out.status = "ok") =>
       th[t].out.segments = Emitted(t)

\* C8: with the mode After(n), an engine resident (loaded by load_model or
\* by the loader of initiate_model_load) and no transcribe entry for more
\* than n seconds, the idle watcher eventually unloads it: an unloaded event
\* is emitted and is_model_loaded() returns false.
IdleAndLoaded ==
  /\ settings.model_unload_timeout = "After"
  /\ IdleExceeded
  /\ engine # None
C8_IdleUnloadHappens == IdleAndLoaded ~> (engine = None /\ ev.unloaded > 0)

\* C11: every load_model call emits loading_started first and afterwards
\* exactly one terminal event: no terminal event comes before its
\* loading_started; once the call has returned, every loading_started has its
\* terminal event; and the first call's terminal event is loading_completed
\* if it returned Ok and loading_failed if it returned an error, whatever
\* made it fail.
C11_TerminalEvent ==
  /\ ev.loading_completed + ev.loading_failed <= ev.loading_started
  /\ ~InLoad(Main) => ev.loading_started = ev.loading_completed + ev.loading_failed
  /\ (Returned(Main, "load_model") /\ ev.loading_started = 1) =>
        /\ th[Main].res = "ok" => (ev.loading_completed = 1 /\ ev.loading_failed = 0)
        /\ th[Main].res = "err" => (ev.loading_completed = 0 /\ ev.loading_failed = 1)

\* C12: an unloaded event is emitted exactly once for each transition from
\* Loaded to Unloaded and never when no engine was resident: a step emits one
\* unloaded event if it completes an unload_model call (manual, immediate or
\* of the idle watcher) that found an engine in the slot, and none otherwise.
UnloadCompleting(t) == pc(t) = "U2" /\ th'[t] # th[t] /\ th[t].resident # None
C12_UnloadedPerTransition ==
  [][ev'.unloaded =
        ev.unloaded + (IF \E t \in Threads : UnloadCompleting(t) THEN 1 ELSE 0)]_vars

\* C14: after a sequence of completed load_model and unload_model calls,
\* is_model_loaded() is true exactly when the call completed last ended in
\* Loaded, that is, was a load_model that returned Ok; after an unload_model
\* and after a load_model that failed it is false.
LastEndedLoaded == th[Main].op = "load_model" /\ th[Main].res = "ok"
C14_LoadedIffLastLoaded ==
  (Returned(Main, "load_model") \/ Returned(Main, "unload_model")) =>
     (engine # None <=> LastEndedLoaded)

\* C18: unload_model called when no engine is resident returns Ok and leaves
\* the engine slot, current_model_id and is_loading as they were; after any
\* unload_model nothing is resident, so a second unload_model leaves the
\* state of the first.
C18_AfterUnload ==
  Returned(Main, "unload_model") =>
     /\ th[Main].res = "ok"
     /\ engine = None
     /\ current_model_id = None
     /\ ~is_loading
C18_UnloadOfNothing ==
  /\ (pc(Main) = "U1" /\ engine = None /\ th'[Main] # th[Main]) =>
        /\ <<engine, current_model_id, is_loading>>' = <<engine, current_model_id, is_loading>>
        /\ th'[Main].resident = None
  /\ (pc(Main) = "U2" /\ th[Main].resident = None /\ th'[Main] # th[Main]) =>
        /\ <<engine, current_model_id, is_loading>>' = <<engine, current_model_id, is_loading>>
        /\ th'[Main].res = "ok"
        /\ th'[Main].stack = <<>>
C13_FileCompleted ==
  \A t \in Callers :
    th[t].op = "transcribe_file" =>
       /\ th[t].file_completed <= 1
       /\ th[t].file_completed = 1 =>
             /\ th[t].out.status = "ok"
             /\ th[t].res = "ok"
             /\ th[t].file_progress = Len(th[t].progress)
       /\ (Returned(t, "transcribe_file") /\ th[t].res = "err") =>
             th[t].file_completed = 0

\* C13 witness: a file of two chunks was transcribed, two progress events
\* were emitted and then the completion event
C13_Witness ==
  \E t \in Callers :
    /\ Returned(t, "transcribe_file")
    /\ th[t].file_completed = 1
    /\ th[t].file_progress = 2
    /\ Len(th[t].backend) = 2

\* the Whisper model with the highest effective score among the downloaded
\* ones of the catalog: medium_turbo (100) before large (90) and small (60)
ExpectedWhisper == IF disk["medium_turbo"] # "missing" THEN "medium_turbo" ELSE "large"
FirstChunkAfterSwitch(t) ==
  /\ pc(t) = "T_call"
  /\ Len(th[t].backend) = 1
  /\ th[t].translate
  /\ th[t].m # None

\* C15 (as stated): when translation is requested and a Parakeet engine is
\* resident, the first chunk is inferred by the downloaded Whisper model with
\* the highest effective score, with translate set.
C15_FirstChunkByWhisper ==
  \A t \in Callers :
    FirstChunkAfterSwitch(t) =>
       /\ th[t].backend[1].model = ExpectedWhisper
       /\ th[t].backend[1].translate

\* C15 (amended): the switcher calls load_model for the downloaded Whisper
\* model with the highest effective score before the first chunk is inferred;
\* if that load returns Ok the first chunk is inferred by that engine with
\* translate set, and if it fails the chunk is inferred by the Parakeet
\* engine still resident, without translation.
C15_SwitchOrFallBack ==
  \A t \in Callers :
    FirstChunkAfterSwitch(t) =>
       /\ th[t].m = ExpectedWhisper
       /\ th[t].res = "ok" =>
             /\ th[t].backend[1].model = ExpectedWhisper
             /\ th[t].backend[1].translate
       /\ th[t].res = "err" =>
             /\ EngineType(th[t].backend[1].model) = "Parakeet"
             /\ ~th[t].backend[1].translate

\* C15 witness: with every model downloaded and Parakeet resident, the first
\* chunk of a translation is with the medium_turbo engine
C15_Witness ==
  \E t \in Callers :
    /\ FirstChunkAfterSwitch(t)
    /\ th[t].res = "ok"
    /\ th[t].backend[1].model = "medium_turbo"
    /\ th[t].backend[1].translate
    /\ ev.loading_completed = 2

EmptyCall(t) == th[t].op = "transcribe" /\ th[t].audio = 0 /\ pc(t) # "idle"

\* C16: transcribe on an empty buffer returns Ok(("", [])) whether or not an
\* engine is resident, passes nothing to the backend, emits no progress
\* event, leaves the cancellation slot as it was, and applies the immediate
\* unload policy: it has read the unload mode, and in the mode Immediately
\* no engine is resident when it returns.
C16_EmptyResult ==
  \A t \in Callers :
    (Returned(t, "transcribe") /\ th[t].audio = 0) =>
       /\ th[t].res = "ok"
       /\ th[t].out = OkOut("", <<>>)
       /\ th[t].backend = <<>>
       /\ th[t].progress = <<>>
       /\ th[t].tok = 0
       /\ th[t].unload_mode = settings.model_unload_timeout
       /\ th[t].unload_mode = "Immediately" => engine = None
C16_SlotUntouched ==
  \A t \in Callers : (EmptyCall(t) /\ th'[t] # th[t]) => cancel' = cancel
C16_EmptyBuffer == []C16_EmptyResult /\ [][C16_SlotUntouched]_vars

\* C16 witness: in the mode Immediately, with an engine resident, the empty
\* buffer has been returned and the engine unloaded
C16_Witness ==
  \E t \in Callers :
    /\ Returned(t, "transcribe")
    /\ th[t].audio = 0
    /\ th[t].unload_mode = "Immediately"
    /\ ev.loading_completed = 1
    /\ ev.unloaded = 1
    /\ engine = None

NotLoaded == ErrOut("Model is not loaded for transcription.")

\* C17: transcribe on a non-empty buffer that finds the slot empty once no
\* load is in flight returns the model-not-loaded error, having passed
\* nothing to the backend, emitted no progress event and installed no token;
\* its steps change neither the engine slot, current_model_id, the
\* cancellation slot nor the events emitted.
C17_NotLoadedResult ==
  \A t \in Callers :
    (Returned(t, "transcribe") /\ th[t].out = NotLoaded) =>
       /\ th[t].res = "err"
       /\ th[t].backend = <<>>
       /\ th[t].progress = <<>>
       /\ th[t].tok = 0
C17_CheckStep ==
  \A t \in Callers :
    /\ (th[t].op = "transcribe" /\ pc(t) \in {"T_wait", "T_chk"} /\ th'[t] # th[t]) =>
          <<lifecycle, is_loading, cancel, ev>>' = <<lifecycle, is_loading, cancel, ev>>
    /\ (th[t].op = "transcribe" /\ pc(t) = "T_chk" /\ engine = None /\ th'[t] # th[t]) =>
          /\ th'[t].stack = Tail(th[t].stack)
          /\ th'[t].out = NotLoaded
CeilDiv(a, b) == (a + b - 1) \div b

\* C19: a non-empty buffer of L samples whose transcription is neither
\* cancelled nor aborted causes exactly ceil(L / 80000) backend invocations,
\* on consecutive slices in input order: every slice but the last holds
\* 80000 samples and the last holds the rest; so N x 80000 samples cause N.
C19_ChunkCount ==
  \A t \in Callers :
    (/\ Returned(t, "transcribe")
     /\ th[t].out.status = "ok"
     /\ ~th[t].was_cancelled
     /\ th[t].audio > 0) =>
       LET n == Len(th[t].backend) IN
         /\ n = CeilDiv(th[t].audio, 80000)
         /\ \A k \in 1..(n - 1) : th[t].backend[k].len = 80000
         /\ th[t].backend[n].len = th[t].audio - (n - 1) * 80000

\* C19 witness: a buffer of one and a half chunks was transcribed with two
\* backend calls, the second on the short slice
C19_Witness ==
  \E t \in Callers :
    /\ Returned(t, "transcribe")
    /\ th[t].out.status = "ok"
    /\ ~th[t].was_cancelled
    /\ th[t].audio = ChunkSize + HalfChunk
    /\ Len(th[t].backend) = 2
    /\ th[t].backend[2].len = HalfChunk

\* C20: a transcription emits at most one progress event per processed
\* chunk, each with a non-empty batch, and none for a chunk that yields
\* neither segments nor non-blank text; audio shorter than one chunk
\* therefore produces at most one progress event.
C20_ProgressBatches ==
  \A t \in Callers :
    /\ Len(th[t].progress) <= th[t].i
    /\ \A k \in 1..Len(th[t].progress) : th[t].progress[k] # <<>>
    /\ th[t].audio < ChunkSize => Len(th[t].progress) <= 1
C20_ProgressStep ==
  \A t \in Callers :
    (th'[t].progress # th[t].progress /\ th'[t].op = th[t].op /\ pc(t) # "idle") =>
       /\ pc(t) = "T_call"
       /\ th'[t].i = th[t].i + 1
       /\ Len(th'[t].progress) = Len(th[t].progress) + 1
       /\ LET batch == th'[t].progress[Len(th'[t].progress)] IN
            \/ th'[t].acc # th[t].acc
            \/ Len(batch) = 1 /\ batch[1].text # "" /\ batch[1].text # " "
C20_ProgressPerChunk == []C20_ProgressBatches /\ [][C20_ProgressStep]_vars

\* C20 witness: of two chunks processed, the first gave neither segments nor
\* text and the second gave segments: one progress event was emitted
C20_Witness ==
  \E t \in Callers :
    /\ th[t].i = 2
    /\ Len(th[t].progress) = 1
    /\ th[t].progress[1][1].start >= ChunkSize

InBackendCall(t) == pc(t) = "T_call"
PcNext(t) == IF th'[t].stack = <<>> THEN "idle" ELSE Head(th'[t].stack)

\* C21: while a backend transcribe call is in flight the calling thread
\* holds the engine lock, the engine it was started on stays in the slot, no
\* unload_model (manual, immediate or of the idle watcher) and no load_model
\* takes its step on the slot, and at most one backend call runs at a time.
C21_LockHeld ==
  /\ Cardinality({t \in Callers : InBackendCall(t)}) <= 1
  /\ \A t \in Callers :
       InBackendCall(t) =>
          /\ engineLock = t
          /\ engine = th[t].backend[Len(th[t].backend)].model
C21_SlotKept ==
  (\E t \in Callers : InBackendCall(t)) =>
     /\ engine' = engine
     /\ \A u \in Threads : pc(u) \in {"U1", "L2"} => th'[u] = th[u]
C21_EngineLockedForCall == []C21_LockHeld /\ [][C21_SlotKept]_vars

\* C21 witness: a backend call is in flight while the idle watcher is in
\* unload_model, waiting for the engine lock, and another thread is about to
\* start a backend call of its own
C21_Witness ==
  \E t \in Callers : \E u \in Callers \ {t} :
    /\ InBackendCall(t)
    /\ pc(Watcher) = "U1"
    /\ pc(u) = "T_inf"

\* C22: the idle watcher empties the engine slot only between
\* transcriptions: it does not empty it while a transcribe call is between
\* two of its chunks, however long ago the call was entered, so a
\* transcription that outlasts the idle limit keeps its engine.
RunningTranscribe(t) ==
  /\ InTranscribe(t)
  /\ th[t].i >= 1
  /\ th[t].i < Len(Chunks(th[t].audio))
C22_NoIdleUnloadWhileTranscribing ==
  [][(/\ pc(Watcher) = "U1"
      /\ th'[Watcher] # th[Watcher]
      /\ engine # None
      /\ sinceActivity > AfterSeconds)
       => \A t \in Callers : ~RunningTranscribe(t)]_vars

\* C23: the idle watcher goes on to unload only on a tick on which the mode
\* it read is After(n), now minus last_activity exceeds n seconds and the
\* shutdown flag is not set; it calls unload_model only from there and only
\* if an engine is resident; and once it has seen the shutdown flag it takes
\* no step but its termination.
C23_WatcherStep ==
  /\ (pc(Watcher) # "W_chk" /\ PcNext(Watcher) = "W_chk") =>
        /\ pc(Watcher) = "W_wake"
        /\ settings.model_unload_timeout = "After"
        /\ sinceActivity > AfterSeconds
        /\ ~shutdown_signal
  /\ (pc(Watcher) # "U1" /\ PcNext(Watcher) = "U1") =>
        /\ pc(Watcher) = "W_chk"
        /\ engine # None
  /\ pc(Watcher) \in {"W_drop", "idle"} => PcNext(Watcher) \in {"W_drop", "idle"}
  /\ (\A t \in Callers : ~InUnload(t)) /\ engine # None /\ engine' = None =>
        pc(Watcher) = "U1"
C23_WatcherUnloadsOnlyWhenIdle == [][C23_WatcherStep]_vars

\* C23 witness: the watcher has unloaded an idle engine and emitted its event
\* in the mode After, and a later background load has set the shutdown flag
C23_Witness ==
  /\ pc(Watcher) = "idle"
  /\ shutdown_signal
  /\ ev.unloaded = 2
  /\ ev.loading_completed = 2
  /\ engine # None

WaitingForLoad(t) == pc(t) \in {"T_wait", "F_wait"}
InspectingSlot(t) == pc(t) \in {"T_chk", "F_chk"}

\* C24: every background load started by initiate_model_load eventually
\* resets is_loading, whether the load succeeded or failed, so a transcribe
\* or transcribe_file call waiting for the load always goes on; and a call
\* inspects the engine slot only while is_loading is false, holding its lock.
C24_InspectsWhenNotLoading ==
  \A t \in Callers : InspectingSlot(t) => (~is_loading /\ loadingLock = t)
C24_LoadingEnds ==
  /\ []C24_InspectsWhenNotLoading
  /\ is_loading ~> ~is_loading
  /\ \A t \in Callers : WaitingForLoad(t) ~> ~WaitingForLoad(t)

\* C24 witness: a transcribe call made while the background load was running
\* has waited, the load has failed, and the call has returned its error
C24_Witness ==
  \E t \in Callers :
    /\ Returned(t, "transcribe")
    /\ th[t].entry.load_running
    /\ th[t].out = NotLoaded
    /\ ev.loading_failed = 1
    /\ ~is_loading

SwitchFailed(t) == WhisperCandidates = {} \/ (th[t].m # None /\ th[t].res = "err")

\* C25 (as stated): when translation is requested with Parakeet resident and
\* the switch before the first chunk finds no downloaded Whisper model or
\* fails to load the one it chose, so that the first chunk is inferred by
\* Parakeet, every chunk of the transcription is inferred by Parakeet.
C25_EveryChunkByParakeet ==
  \A t \in Callers :
    (/\ th[t].translate
     /\ th[t].backend # <<>>
     /\ EngineType(th[t].backend[1].model) = "Parakeet") =>
       \A k \in 1..Len(th[t].backend) : EngineType(th[t].backend[k].model) = "Parakeet"

\* C25 (amended): when translation is requested with Parakeet resident and no
\* downloaded Whisper model exists, or the load of the chosen one fails, the
\* engine slot and current_model_id stay as they were, the transcription
\* goes on, and the chunk is inferred by the Parakeet engine without
\* translation; the switch is tried again before every chunk.
C25_ChunkByParakeet ==
  \A t \in Callers :
    (InBackendCall(t) /\ th[t].translate /\ SwitchFailed(t)) =>
       LET call == th[t].backend[Len(th[t].backend)] IN
         /\ EngineType(call.model) = "Parakeet"
         /\ ~call.translate
         /\ engine = call.model
         /\ current_model_id = call.model
C25_SwitchStep ==
  \A t \in Callers :
    /\ (pc(t) = "E2" /\ WhisperCandidates = {} /\ th'[t] # th[t]) =>
          /\ lifecycle' = lifecycle
          /\ PcNext(t) = "T_inf"
    /\ (/\ th[t].op = "transcribe"
        /\ InLoad(t)
        /\ th'[t] # th[t]
        /\ ~InLoad(t)'
        /\ th'[t].res = "err") =>
          /\ lifecycle' = lifecycle
          /\ PcNext(t) = "T_inf"
C25_FallBackToParakeet == []C25_ChunkByParakeet /\ [][C25_SwitchStep]_vars

\* C25 witness: a translation of two chunks has returned Ok after the load
\* of the Whisper model failed before each chunk; both went to Parakeet
C25_Witness ==
  \E t \in Callers :
    /\ Returned(t, "transcribe")
    /\ th[t].translate
    /\ th[t].out.status = "ok"
    /\ Len(th[t].backend) = 2
    /\ \A k \in 1..2 : EngineType(th[t].backend[k].model) = "Parakeet"
    /\ ev.loading_failed = 2

\* the samples passed to the backend in the first k calls
RECURSIVE SamplesBefore(_, _)
SamplesBefore(backend, k) ==
  IF k = 0 THEN 0 ELSE backend[k].len + SamplesBefore(backend, k - 1)

\* C26: the offset added to the segments of chunk k+1 is the sum of the
\* actual sample counts of chunks 1..k (in samples of 1/16000 s), not k times
\* the nominal chunk; the offset of the first chunk is 0.
C26_OffsetAtCall ==
  \A t \in Callers :
    InBackendCall(t) =>
       /\ th[t].previous_end_time = SamplesBefore(th[t].backend, Len(th[t].backend) - 1)
       /\ Len(th[t].backend) = 1 => th[t].previous_end_time = 0
C26_OffsetStep ==
  \A t \in Callers :
    (InBackendCall(t) /\ th'[t] # th[t] /\ PcNext(t) = "T_poll") =>
       /\ th'[t].previous_end_time = SamplesBefore(th[t].backend, Len(th[t].backend))
       /\ th'[t].acc # th[t].acc =>
             th'[t].acc[Len(th[t].acc) + 1].start =
                SamplesBefore(th[t].backend, Len(th[t].backend) - 1)
C26_OffsetIsSamplesSoFar == []C26_OffsetAtCall /\ [][C26_OffsetStep]_vars

\* C26 witness: the segments of a short second chunk were shifted by the
\* first chunk's samples, and the offset then advanced by the short chunk
C26_Witness ==
  \E t \in Callers :
    /\ th[t].i = 2
    /\ th[t].audio = ChunkSize + HalfChunk
    /\ th[t].previous_end_time = ChunkSize + HalfChunk
    /\ Len(th[t].acc) = 2
    /\ th[t].acc[2].start = ChunkSize

\* a step that emits a synthetic segment spans the chunk: from the chunk's
\* start offset to that offset plus the chunk's actual length
SyntheticStep(t) ==
  /\ InBackendCall(t)
  /\ th'[t].progress # th[t].progress
  /\ th'[t].acc = th[t].acc
SyntheticSpansChunk ==
  \A t \in Callers :
    SyntheticStep(t) =>
       LET batch == th'[t].progress[Len(th'[t].progress)]
           call == th[t].backend[Len(th[t].backend)]
       IN /\ Len(batch) = 1
          /\ batch[1].start = SamplesBefore(th[t].backend, Len(th[t].backend) - 1)
          /\ batch[1].end = batch[1].start + call.len
SyntheticTiming == [][SyntheticSpansChunk]_vars
IsSynthetic(t, batch) ==
  /\ Len(batch) = 1
  /\ \A k \in 1..Len(th[t].acc) : th[t].acc[k].start # batch[1].start

\* C27: a chunk for which the backend returns no segments but non-blank text
\* contributes exactly one synthetic segment spanning the chunk, and that
\* segment is part of the result the transcription returns: every synthetic
\* segment emitted is among the segments of an Ok result.
C27_SyntheticInResult ==
  \A t \in Callers :
    (Returned(t, "transcribe") /\ th[t].out.status = "ok") =>
       \A b \in 1..Len(th[t].progress) :
          IsSynthetic(t, th[t].progress[b]) =>
             \E k \in 1..Len(th[t].out.segments) :
                th[t].out.segments[k] = th[t].progress[b][1]

\* the segments of the k-th chunk passed to the backend, as accumulated
\* (their text is the backend's, before correction)
ChunkHasText(t, k) ==
  \E j \in 1..Len(th[t].acc) :
    /\ th[t].acc[j].start >= SamplesBefore(th[t].backend, k - 1)
    /\ th[t].acc[j].start < SamplesBefore(th[t].backend, k)
    /\ th[t].acc[j].text # ""

\* C28: every chunk after the first that is inferred by a Whisper engine
\* carries an initial prompt (the pre-correction text of the previous
\* chunk's segments) whenever the previous chunk gave text; the first chunk
\* carries none.
C28_InitialPrompt ==
  \A t \in Callers :
    \A k \in 1..Len(th[t].backend) :
      /\ k = 1 => th[t].backend[k].initial_prompt = None
      /\ (k > 1 /\ EngineType(th[t].backend[k].model) = "Whisper" /\ ChunkHasText(t, k - 1))
            => th[t].backend[k].initial_prompt # None

\* the languages of Languages that start with "zh-"
StartsWithZh(l) == l \in {"zh-Hans", "zh-Hant", "zh-TW"}
NormalizedLanguage(l) ==
  IF l = "auto" THEN None ELSE IF StartsWithZh(l) THEN "zh" ELSE l

\* C29: for the Whisper backend the language passed with each chunk is None
\* when the effective language is "auto", "zh" for every effective language
\* that starts with "zh-", and the effective language itself otherwise.
C29_WhisperLanguage ==
  \A t \in Callers :
    \A k \in 1..Len(th[t].backend) :
      EngineType(th[t].backend[k].model) = "Whisper" =>
         th[t].backend[k].language = NormalizedLanguage(th[t].language)

\* C30: the shutdown flag stays false while the manager created by new is
\* alive (it is never dropped here): the end of a loader thread, which drops
\* the clone moved into it, neither sets the flag nor takes the watcher's
\* handle nor stops the watcher.
C30_FlagStaysFalse ==
  /\ ~shutdown_signal
  /\ watcher_handle = "some"
  /\ pc(Watcher) \notin {"W_drop", "idle"}

\* the threads a thread is waiting for (none when it can go on): the holder
\* of the mutex it is about to lock, the loader whose notification the
\* condvar wait needs, the thread a join waits for
NeedsEngineLock(t) ==
  \/ pc(t) \in {"U1", "L2", "MU", "T_chk", "E1", "T_inf", "W_chk", "F_chk"}
  \/ pc(t) = "I2" /\ ~is_loading
NeedsLoadingLock(t) == pc(t) \in {"I1", "LD1", "T_wait", "F_wait"}
Joiners == {u \in Threads : pc(u) = "LD4"}
WaitsFor(t) ==
  IF NeedsEngineLock(t) /\ engineLock # Free THEN {engineLock}
  ELSE IF NeedsLoadingLock(t) /\ loadingLock # Free THEN {loadingLock}
  ELSE IF pc(t) \in {"T_wait", "F_wait"} /\ is_loading THEN LoadersInFlight
  ELSE IF pc(t) \in {"LD3", "W_drop"} /\ watcher_handle = "joining" THEN Joiners
  ELSE IF pc(t) = "LD4" /\ th[Watcher].stack # <<>> THEN {Watcher}
  ELSE {}

\* threads that wait for one another and for nobody else
Deadlocked(S) ==
  /\ S # {}
  /\ \A t \in S : WaitsFor(t) # {} /\ WaitsFor(t) \subseteq S

\* the is_loading lock is never taken by a thread that holds the engine lock
LockOrderStep ==
  \A t \in Threads : (loadingLock' = t /\ loadingLock # t) => engineLock # t
LockOrder == [][LockOrderStep]_vars

\* C31: no interleaving of the manager's operations, the loader thread and
\* the idle watcher reaches a deadlock: there is never a set of threads each
\* of which waits only for threads of the set.
C31_NoDeadlock == \A S \in SUBSET Threads : ~Deadlocked(S)
====
